---- MODULE Spec2Model ----
(***************************************************************************)
(* Model of the seven_segment character-device driver                      *)
(* (src/seven_segment.c): the digit register of struct seven_segment_dev,  *)
(* the module's init/exit resource sequence, and its two access surfaces   *)
(* (file_operations read/write, class attribute show/store).               *)
(***************************************************************************)
EXTENDS Integers, Sequences, FiniteSets, TLC

(***************************************************************************)
(* Program constants.                                                      *)
(***************************************************************************)
\* #define USE_NUMBER_OF_DIGITS 1 : size of the kmalloc'ed message buffer
USE_NUMBER_OF_DIGITS == 1
\* errno values returned (negated) by the handlers
EFAULT == 14
EINVAL == 22
ENOMEM == 12
\* width of the C type char
CharBits == 8
CharMod == 2 ^ CharBits
\* the character '0'
Char0 == 48
\* the character '\n'
CharNL == 10
\* the character '1'
Char1 == 49

(***************************************************************************)
(* Bounds of the model.                                                    *)
(***************************************************************************)
\* how many times the module is loaded (insmod) in one behaviour
MaxLoads == 2
\* the largest count a caller passes to read or write
MaxCount == 2

\* first bytes callers supply: every digit character, the two neighbours of
\* the digit range ('/' and ':'), NUL and a byte with the top bit set
DigitChars == 48..57
OtherBytes == {0, 47, 58, 200}
FirstBytes == DigitChars \cup OtherBytes
Counts == 0..MaxCount

\* the six acquisitions of seven_segment_init, in acquisition order
Resources == <<"region", "class", "devp", "cdev", "node", "message">>
ResourceSet == {Resources[i] : i \in 1..Len(Resources)}
NSteps == Len(Resources)

VARIABLES
    state,              \* "Uninitialized" | "Active" | "ShuttingDown" (inside
                        \* seven_segment_exit): whether the module is loaded
    loads,              \* number of seven_segment_init calls so far
    held,               \* resource -> number of acquisitions not yet released
    seven_segment_devp, \* the global pointer: "NULL" | "valid" | "freed"
    digit_to_display,   \* seven_segment_devp->digit_to_display, as a byte 0..255;
                        \* Indeterminate while no initialized allocation backs it
    message,            \* the global pointer message: "NULL" | "valid"
    msgbuf,             \* message[0]; Indeterminate until the kmalloc'ed byte is written
    overrun,            \* bytes the last write copied beyond message's one byte
    fault,              \* "none" | "null_deref": how the last handler died, if it did
    charSigned,         \* whether this build's plain char is signed
    filp,               \* the session: "closed" | "open" (filp->private_data set)
    op,                 \* the handler that ran last
    arg,                \* its input: [b |-> first byte, count |-> count]; for a
                        \* write also copied, the bytes copy_from_user delivered
    changed,            \* whether it left digit_to_display with another value
    ret,                \* its return value
    out,                \* the bytes it delivered to the caller (read, show)
    shown,              \* the bytes it passed to display_on_screen
    calls,              \* the release calls it issued (init, exit)
    failed,             \* the acquisition steps that failed in the last init
    pc,                 \* thread -> position inside its handler (interleaved runs)
    targ,               \* thread -> the payload of its call
    tobs                \* thread -> what its call loaded, stored, rendered and
                        \* returned, and whether it used the register after kfree

lifeVars == <<state, loads, held, seven_segment_devp, message, charSigned, filp>>
memVars == <<digit_to_display, msgbuf, overrun>>
obsVars == <<op, arg, changed, ret, out, shown, calls, failed, fault>>
thrVars == <<pc, targ, tobs>>
vars == <<lifeVars, memVars, obsVars, thrVars>>

(***************************************************************************)
(* C arithmetic on char.                                                   *)
(***************************************************************************)
\* conversion of an int to char, kept as the stored byte
ToChar(i) == i % CharMod

\* the int value of a char holding byte b (integer promotion)
CharVal(b) == IF charSigned /\ b >= CharMod \div 2 THEN b - CharMod ELSE b

\* a write that stores the character itself, without subtracting '0'
WriteDigitNoOffset(b) == ToChar(CharVal(b))

\* message[0] - (int)'0' assigned to the char digit_to_display
WriteDigit(b) == ToChar(CharVal(b) - Char0)

\* a store whose upper bound test is off by one (<= 10)
StoreAcceptsOffByOne(b) == CharVal(b) - Char0 <= 10 /\ CharVal(b) - Char0 >= 0

\* buf[0] - (int)'0' < 10 && buf[0] - (int)'0' >= 0
StoreAccepts(b) == CharVal(b) - Char0 < 10 /\ CharVal(b) - Char0 >= 0

\* a store that keeps the character itself, without subtracting '0'
StoreDigitRaw(b) == ToChar(CharVal(b))

\* buf[0] - (int)'0' assigned to the char digit_to_display
StoreDigit(b) == ToChar(CharVal(b) - Char0)

\* a read that hands out the register without adding '0'
ReadByteRaw(d) == ToChar(CharVal(d))

\* byte = '0' + seven_segment_devp->digit_to_display
ReadByte(d) == ToChar(Char0 + CharVal(d))

\* sprintf(buf, "%c\n", '0' + seven_segment_devp->digit_to_display)
ShowBytes(d) == <<ToChar(Char0 + CharVal(d)), CharNL>>

(***************************************************************************)
(* Resource bookkeeping.                                                   *)
(***************************************************************************)
Acquire(h, r) == [h EXCEPT ![r] = @ + 1]
\* a release of something not held finds nothing to release
Release(h, r) == [h EXCEPT ![r] = IF @ > 0 THEN @ - 1 ELSE 0]

RECURSIVE AcquireAll(_, _)
AcquireAll(h, rs) ==
    IF rs = <<>> THEN h ELSE AcquireAll(Acquire(h, Head(rs)), Tail(rs))

RECURSIVE ReleaseAll(_, _)
ReleaseAll(h, rs) ==
    IF rs = <<>> THEN h ELSE ReleaseAll(Release(h, Head(rs)), Tail(rs))

\* the content of memory that was not written since kmalloc, or was freed
Indeterminate == -1

NoArg == [b |-> 0, count |-> 0]
\* the callers of the interleaved runs: two stream writers, one setter, one
\* getter, and the caller of seven_segment_exit
Writers == {"w1", "w2"}
Setters == {"s1"}
Getters == {"g1"}
Unloaders == {"x"}
Threads == Writers \cup Setters \cup Getters \cup Unloaders
\* nothing loaded, stored or rendered yet: a value no memory content equals
None == Indeterminate - 1
NoObs == [loaded |-> None, stored |-> None, rendered |-> None, ret |-> 0,
          freed |-> FALSE]

Init ==
    /\ state = "Uninitialized"
    /\ loads = 0
    /\ held = [r \in ResourceSet |-> 0]
    /\ seven_segment_devp = "NULL"
    /\ digit_to_display = Indeterminate
    /\ message = "NULL"
    /\ msgbuf = Indeterminate
    /\ overrun = 0
    /\ charSigned \in BOOLEAN
    /\ filp = "closed"
    /\ op = "none"
    /\ arg = NoArg
    /\ changed = FALSE
    /\ ret = 0
    /\ out = <<>>
    /\ shown = <<>>
    /\ calls = <<>>
    /\ failed = {}
    /\ fault = "none"
    /\ pc = [t \in Threads |-> "idle"]
    /\ targ = [t \in Threads |-> NoArg]
    /\ tobs = [t \in Threads |-> NoObs]

(***************************************************************************)
(* seven_segment_init.  fails is the set of acquisition steps whose kernel *)
(* call fails if it is reached; nodeRet is what a failing device_create    *)
(* returns.  The result names what the call acquired, the releases it      *)
(* issued, its return value and the last step it reached.                  *)
(***************************************************************************)
InitResult(acq, rel, r, last) == [acq |-> acq, rel |-> rel, ret |-> r, last |-> last]

\* the value of ret after a failing cdev_add
CdevAddError == -ENOMEM

\* what a failing device_create may hand back: the code tests for NULL only
NodeRets == {"NULL", "ERR_PTR"}

InitOutcome(fails, nodeRet) ==
    IF 1 \in fails
    THEN \* alloc_chrdev_region(...) < 0 : return -1
         InitResult(<<>>, <<>>, -1, 1)
    ELSE IF 2 \in fails
    THEN \* class_register(...) < 0 : unregister_chrdev_region; return -EINVAL
         InitResult(<<"region">>, <<"region">>, -EINVAL, 2)
    ELSE IF 3 \in fails
    THEN \* !seven_segment_devp : return -ENOMEM
         InitResult(<<"region", "class">>, <<>>, -ENOMEM, 3)
    ELSE IF 4 \in fails
    THEN \* cdev_add(...) != 0 : device_destroy; class_destroy;
         \* unregister_chrdev_region; return ret
         InitResult(<<"region", "class", "devp">>,
                    <<"node", "class", "region">>, CdevAddError, 4)
    ELSE IF 5 \in fails /\ nodeRet = "NULL"
    THEN \* device_create(...) == NULL : class_destroy;
         \* unregister_chrdev_region; return -1
         InitResult(<<"region", "class", "devp", "cdev">>,
                    <<"class", "region">>, -1, 5)
    ELSE \* message = kmalloc(...); return 0
         InitResult(<<"region", "class", "devp", "cdev">>
                        \o (IF 5 \in fails THEN <<>> ELSE <<"node">>)
                        \o (IF 6 \in fails THEN <<>> ELSE <<"message">>),
                    <<>>, 0, NSteps)

\* an init that stores the character '1' itself
InitDigitChar == ToChar(Char1)

\* seven_segment_devp->digit_to_display = '1' - (int)'0'
InitDigit == ToChar(Char1 - Char0)

seven_segment_init(maxLoads) ==
    /\ state = "Uninitialized"
    /\ loads < maxLoads
    /\ \E fails \in SUBSET (1..NSteps), nodeRet \in NodeRets :
         LET o == InitOutcome(fails, nodeRet) IN
         /\ loads' = loads + 1
         /\ held' = ReleaseAll(AcquireAll(held, o.acq), o.rel)
         /\ state' = IF o.ret = 0 THEN "Active" ELSE "Uninitialized"
         /\ seven_segment_devp' =
              IF o.last < 3 THEN seven_segment_devp
              ELSE IF o.last = 3 THEN "NULL" ELSE "valid"
         /\ digit_to_display' = IF o.last > 3 THEN InitDigit ELSE digit_to_display
         /\ message' =
              IF o.last < NSteps THEN message
              ELSE IF 6 \in fails THEN "NULL" ELSE "valid"
         /\ msgbuf' = IF o.last = NSteps THEN Indeterminate ELSE msgbuf
         /\ op' = "init"
         /\ arg' = NoArg
         /\ changed' = (o.last > 3 /\ digit_to_display # InitDigit)
         /\ ret' = o.ret
         /\ out' = <<>>
         /\ shown' = <<>>
         /\ calls' = o.rel
         /\ failed' = fails \cap (1..o.last)
         /\ fault' = "none"
    /\ UNCHANGED <<overrun, charSigned, filp, thrVars>>

(***************************************************************************)
(* seven_segment_exit.  The module can be removed only while no file of    *)
(* the device is open (seven_segment_fops.owner = THIS_MODULE).            *)
(***************************************************************************)
\* unregister_chrdev_region; kfree(seven_segment_devp); device_destroy;
\* class_destroy
ExitReleases == <<"region", "devp", "node", "class">>

seven_segment_exit ==
    /\ state = "Active"
    /\ filp = "closed"
    /\ state' = "Uninitialized"
    /\ held' = ReleaseAll(held, ExitReleases)
    /\ seven_segment_devp' = "freed"
    /\ digit_to_display' = Indeterminate
    /\ op' = "exit"
    /\ arg' = NoArg
    /\ changed' = FALSE
    /\ ret' = 0
    /\ out' = <<>>
    /\ shown' = <<>>
    /\ calls' = ExitReleases
    /\ failed' = {}
    /\ fault' = "none"
    /\ UNCHANGED <<loads, message, charSigned, filp, msgbuf, overrun, thrVars>>

(***************************************************************************)
(* The stream surface: open, release, read, write.                         *)
(***************************************************************************)
seven_segment_open ==
    /\ state = "Active"
    /\ filp = "closed"
    /\ filp' = "open"
    /\ op' = "open"
    /\ arg' = NoArg
    /\ changed' = FALSE
    /\ ret' = 0
    /\ out' = <<>>
    /\ shown' = <<>>
    /\ calls' = <<>>
    /\ fault' = "none"
    /\ UNCHANGED <<state, loads, held, seven_segment_devp, message, charSigned,
                   memVars, failed, thrVars>>

seven_segment_release ==
    /\ filp = "open"
    /\ filp' = "closed"
    /\ op' = "release"
    /\ arg' = NoArg
    /\ changed' = FALSE
    /\ ret' = 0
    /\ out' = <<>>
    /\ shown' = <<>>
    /\ calls' = <<>>
    /\ fault' = "none"
    /\ UNCHANGED <<state, loads, held, seven_segment_devp, message, charSigned,
                   memVars, failed, thrVars>>

\* n copies of byte c
Repeat(c, n) == [i \in 1..n |-> c]

\* a read that reports the requested count whatever put_user refused
ReadRetvalCount(count, accepted) == count

\* retval when the loop for (retval = 0; retval < count; ++retval) ends: at
\* the break of the first refused put_user, or at count
ReadRetval(count, accepted) == IF accepted < count THEN accepted ELSE count

\* the loop of seven_segment_read: put_user accepts the first `accepted`
\* bytes and refuses the next one, if there is a next one
seven_segment_read(counts) ==
    /\ filp = "open"
    /\ \E count \in counts : \E accepted \in 0..count :
         /\ op' = "read"
         /\ arg' = [b |-> 0, count |-> count]
         /\ out' = Repeat(ReadByte(digit_to_display), accepted)
         /\ ret' = ReadRetval(count, accepted)
    /\ changed' = FALSE
    /\ shown' = <<>>
    /\ calls' = <<>>
    /\ fault' = "none"
    /\ UNCHANGED <<lifeVars, memVars, failed, thrVars>>

\* message[0] after memset(message, 0, 1) and a copy_from_user that
\* delivered the first `copied` bytes of a payload starting with b (what it
\* cannot deliver it leaves zeroed)
CopiedByte(b, copied) == IF copied >= 1 THEN b ELSE 0

\* a copy_from_user whose result is taken to be 0 whatever was delivered
CopyFromUserUnchecked(count, copied) == 0

\* the value of copy_from_user(message, buf, count): the number of bytes it
\* could not deliver
CopyFromUser(count, copied) == count - copied

\* bytes copy_from_user stored beyond the end of the message buffer
Overrun(copied) ==
    IF copied > USE_NUMBER_OF_DIGITS THEN copied - USE_NUMBER_OF_DIGITS ELSE 0

seven_segment_write(bytes, counts) ==
    /\ filp = "open"
    /\ \E b \in bytes, count \in counts : \E copied \in 0..count :
         /\ op' = "write"
         /\ arg' = [b |-> IF count = 0 THEN 0 ELSE b, count |-> count,
                    copied |-> copied]
         /\ out' = <<>>
         /\ calls' = <<>>
         /\ IF message = "NULL"
            THEN \* memset(NULL, 0, 1): the calling process dies in the kernel
                 /\ fault' = "null_deref"
                 /\ filp' = "closed"
                 /\ ret' = 0
                 /\ shown' = <<>>
                 /\ changed' = FALSE
                 /\ UNCHANGED memVars
            ELSE /\ fault' = "none"
                 /\ filp' = filp
                 /\ msgbuf' = CopiedByte(b, copied)
                 /\ overrun' = Overrun(copied)
                 /\ IF CopyFromUser(count, copied) # 0
                    THEN \* copy_from_user(...) != 0 : return -EFAULT
                         /\ ret' = -EFAULT
                         /\ shown' = <<>>
                         /\ changed' = FALSE
                         /\ UNCHANGED digit_to_display
                    ELSE /\ digit_to_display' = WriteDigit(CopiedByte(b, copied))
                         /\ changed' =
                              (WriteDigit(CopiedByte(b, copied)) # digit_to_display)
                         /\ shown' = <<CopiedByte(b, copied)>>
                         /\ ret' = count
    /\ UNCHANGED <<state, loads, held, seven_segment_devp, message, charSigned,
                   failed, thrVars>>

(***************************************************************************)
(* The attribute surface: digit_to_display_show, digit_to_display_store.   *)
(***************************************************************************)
digit_to_display_show ==
    /\ state = "Active"
    /\ op' = "show"
    /\ arg' = NoArg
    /\ changed' = FALSE
    /\ out' = ShowBytes(digit_to_display)
    /\ ret' = Len(ShowBytes(digit_to_display))
    /\ shown' = <<>>
    /\ calls' = <<>>
    /\ fault' = "none"
    /\ UNCHANGED <<lifeVars, memVars, failed, thrVars>>

\* buf is the kernel's copy of the caller's bytes, NUL-terminated: with
\* count 0 its first byte is NUL
digit_to_display_store(bytes, counts) ==
    /\ state = "Active"
    /\ \E b0 \in bytes, count \in counts :
         LET b == IF count = 0 THEN 0 ELSE b0 IN
         /\ op' = "store"
         /\ arg' = [b |-> b, count |-> count]
         /\ IF StoreAccepts(b)
            THEN /\ digit_to_display' = StoreDigit(b)
                 /\ changed' = (StoreDigit(b) # digit_to_display)
                 /\ shown' = <<b>>
            ELSE /\ UNCHANGED digit_to_display
                 /\ changed' = FALSE
                 /\ shown' = <<>>
         /\ ret' = 1
    /\ out' = <<>>
    /\ calls' = <<>>
    /\ fault' = "none"
    /\ UNCHANGED <<lifeVars, msgbuf, overrun, failed, thrVars>>

(***************************************************************************)
(* Spec: one load of the module, every handler, every payload.             *)
(***************************************************************************)
Next ==
    \/ seven_segment_init(1)
    \/ seven_segment_exit
    \/ seven_segment_open
    \/ seven_segment_release
    \/ seven_segment_read(Counts)
    \/ seven_segment_write(FirstBytes, Counts)
    \/ digit_to_display_show
    \/ digit_to_display_store(FirstBytes, Counts)

Spec == Init /\ [][Next]_vars

(***************************************************************************)
(* SpecLife: up to MaxLoads loads and unloads of the module, the handlers  *)
(* called with the payloads "5" and ":" only.                              *)
(***************************************************************************)
LifeBytes == {53, 58}
LifeCounts == {1}

NextLife ==
    \/ seven_segment_init(MaxLoads)
    \/ seven_segment_exit
    \/ seven_segment_open
    \/ seven_segment_release
    \/ seven_segment_read(LifeCounts)
    \/ seven_segment_write(LifeBytes, LifeCounts)
    \/ digit_to_display_show
    \/ digit_to_display_store(LifeBytes, LifeCounts)

SpecLife == Init /\ [][NextLife]_vars

(***************************************************************************)
(* SpecConc: one load of the module, then calls that overlap.  Each thread *)
(* makes one call; a step is one access to the shared register or to the   *)
(* shared message buffer.  No handler takes a lock, and each access is a   *)
(* load or store of a single byte.                                         *)
(***************************************************************************)
ConcBytes == {53, 55, 58}
ConcCounts == {1}

\* the class attribute exists from class_register to class_destroy
AttributeLive == state \in {"Active", "ShuttingDown"}

\* the register after a store of v through seven_segment_devp: a store
\* through the pointer after kfree lands in memory that is no longer the
\* register's
RegisterStore(v) == IF seven_segment_devp = "valid" THEN v ELSE Indeterminate

\* whether an access through seven_segment_devp made now uses freed memory
UsesFreed == seven_segment_devp = "freed"

\* entry of seven_segment_write with the caller's buf and count
WriteBegin(t) ==
    /\ t \in Writers
    /\ filp = "open"
    /\ pc[t] = "idle"
    /\ \E b \in ConcBytes, count \in ConcCounts :
         targ' = [targ EXCEPT ![t] = [b |-> b, count |-> count]]
    /\ pc' = [pc EXCEPT ![t] = "memset"]
    /\ UNCHANGED <<lifeVars, memVars, obsVars, tobs>>

\* memset(message, 0, USE_NUMBER_OF_DIGITS)
WriteMemset(t) ==
    /\ pc[t] = "memset"
    /\ IF message = "NULL"
       THEN /\ pc' = [pc EXCEPT ![t] = "dead"]
            /\ UNCHANGED msgbuf
       ELSE /\ pc' = [pc EXCEPT ![t] = "copy"]
            /\ msgbuf' = 0
    /\ UNCHANGED <<lifeVars, digit_to_display, overrun, obsVars, targ, tobs>>

\* if (copy_from_user(message, buf, count) != 0) return -EFAULT
WriteCopy(t) ==
    /\ pc[t] = "copy"
    /\ \E copied \in 0..targ[t].count :
         /\ msgbuf' = IF targ[t].count = 0 THEN msgbuf
                      ELSE CopiedByte(targ[t].b, copied)
         /\ overrun' = Overrun(copied)
         /\ IF CopyFromUser(targ[t].count, copied) # 0
            THEN /\ pc' = [pc EXCEPT ![t] = "done"]
                 /\ tobs' = [tobs EXCEPT ![t].ret = -EFAULT]
            ELSE /\ pc' = [pc EXCEPT ![t] = "load"]
                 /\ UNCHANGED tobs
    /\ UNCHANGED <<lifeVars, digit_to_display, obsVars, targ>>

\* the load of message[0] in
\* seven_segment_devp->digit_to_display = message[0] - (int)'0'
WriteLoad(t) ==
    /\ pc[t] = "load"
    /\ tobs' = [tobs EXCEPT ![t].loaded = msgbuf]
    /\ pc' = [pc EXCEPT ![t] = "assign"]
    /\ UNCHANGED <<lifeVars, memVars, obsVars, targ>>

\* the store to digit_to_display in the same statement
WriteAssign(t) ==
    /\ pc[t] = "assign"
    /\ digit_to_display' = RegisterStore(WriteDigit(tobs[t].loaded))
    /\ tobs' = [tobs EXCEPT ![t].stored = WriteDigit(tobs[t].loaded),
                            ![t].freed = UsesFreed]
    /\ pc' = [pc EXCEPT ![t] = "display"]
    /\ UNCHANGED <<lifeVars, msgbuf, overrun, obsVars, targ>>

\* display_on_screen(message); return count
WriteDisplay(t) ==
    /\ pc[t] = "display"
    /\ tobs' = [tobs EXCEPT ![t].rendered = msgbuf, ![t].ret = targ[t].count]
    /\ pc' = [pc EXCEPT ![t] = "done"]
    /\ UNCHANGED <<lifeVars, memVars, obsVars, targ>>

\* entry of digit_to_display_store and its test of buf[0], the kernel's
\* private copy of the caller's bytes
StoreBegin(t) ==
    /\ t \in Setters
    /\ AttributeLive
    /\ pc[t] = "idle"
    /\ \E b \in ConcBytes, count \in ConcCounts :
         /\ targ' = [targ EXCEPT ![t] = [b |-> b, count |-> count]]
         /\ pc' = [pc EXCEPT ![t] = IF StoreAccepts(b) THEN "assign" ELSE "return"]
    /\ UNCHANGED <<lifeVars, memVars, obsVars, tobs>>

\* seven_segment_devp->digit_to_display = buf[0] - (int)'0'
StoreAssign(t) ==
    /\ t \in Setters
    /\ pc[t] = "assign"
    /\ digit_to_display' = RegisterStore(StoreDigit(targ[t].b))
    /\ tobs' = [tobs EXCEPT ![t].stored = StoreDigit(targ[t].b),
                            ![t].freed = UsesFreed]
    /\ pc' = [pc EXCEPT ![t] = "display"]
    /\ UNCHANGED <<lifeVars, msgbuf, overrun, obsVars, targ>>

\* display_on_screen(buf)
StoreDisplay(t) ==
    /\ t \in Setters
    /\ pc[t] = "display"
    /\ tobs' = [tobs EXCEPT ![t].rendered = targ[t].b]
    /\ pc' = [pc EXCEPT ![t] = "return"]
    /\ UNCHANGED <<lifeVars, memVars, obsVars, targ>>

\* return 1
StoreReturn(t) ==
    /\ pc[t] = "return"
    /\ tobs' = [tobs EXCEPT ![t].ret = 1]
    /\ pc' = [pc EXCEPT ![t] = "done"]
    /\ UNCHANGED <<lifeVars, memVars, obsVars, targ>>

\* entry of digit_to_display_show
ShowBegin(t) ==
    /\ t \in Getters
    /\ AttributeLive
    /\ pc[t] = "idle"
    /\ pc' = [pc EXCEPT ![t] = "load"]
    /\ UNCHANGED <<lifeVars, memVars, obsVars, targ, tobs>>

\* the load of digit_to_display in
\* return sprintf(buf, "%c\n", '0' + seven_segment_devp->digit_to_display)
ShowLoad(t) ==
    /\ t \in Getters
    /\ pc[t] = "load"
    /\ tobs' = [tobs EXCEPT ![t].loaded = digit_to_display,
                            ![t].ret = Len(ShowBytes(digit_to_display)),
                            ![t].freed = UsesFreed]
    /\ pc' = [pc EXCEPT ![t] = "done"]
    /\ UNCHANGED <<lifeVars, memVars, obsVars, targ>>

NextConc ==
    \/ seven_segment_init(1)
    \/ seven_segment_open
    \/ \E t \in Writers : WriteBegin(t)
    \/ \E t \in Writers : WriteMemset(t)
    \/ \E t \in Writers : WriteCopy(t)
    \/ \E t \in Writers : WriteLoad(t)
    \/ \E t \in Writers : WriteAssign(t)
    \/ \E t \in Writers : WriteDisplay(t)
    \/ \E t \in Setters : StoreBegin(t)
    \/ \E t \in Setters : StoreAssign(t)
    \/ \E t \in Setters : StoreDisplay(t)
    \/ \E t \in Setters : StoreReturn(t)
    \/ \E t \in Getters : ShowBegin(t)
    \/ \E t \in Getters : ShowLoad(t)

SpecConc == Init /\ [][NextConc]_vars

(***************************************************************************)
(* SpecExit: one load of the module, then seven_segment_exit statement by  *)
(* statement, overlapping with calls of the handlers.  The kernel runs     *)
(* exit only while no file of the device is open and refuses open from     *)
(* then on (seven_segment_fops.owner = THIS_MODULE); the class attribute   *)
(* stays callable until class_destroy, which waits for the attribute calls *)
(* in flight.                                                              *)
(***************************************************************************)
\* the one stream writer of these runs
ExitWriters == {"w1"}

InFlight(t) == pc[t] \notin {"idle", "done", "dead"}

\* the last close of the file, which no write is inside of any more
FileRelease ==
    /\ \A t \in Writers : ~InFlight(t)
    /\ seven_segment_release

\* entry of seven_segment_exit
ExitBegin(t) ==
    /\ t \in Unloaders
    /\ pc[t] = "idle"
    /\ state = "Active"
    /\ filp = "closed"
    /\ state' = "ShuttingDown"
    /\ pc' = [pc EXCEPT ![t] = "region"]
    /\ UNCHANGED <<loads, held, seven_segment_devp, message, charSigned, filp,
                   memVars, obsVars, targ, tobs>>

\* unregister_chrdev_region(first, USE_DIPLAY_NUM)
ExitRegion(t) ==
    /\ pc[t] = "region"
    /\ held' = Release(held, "region")
    /\ pc' = [pc EXCEPT ![t] = "kfree"]
    /\ UNCHANGED <<state, loads, seven_segment_devp, message, charSigned, filp,
                   memVars, obsVars, targ, tobs>>

\* kfree(seven_segment_devp)
ExitKfree(t) ==
    /\ pc[t] = "kfree"
    /\ held' = Release(held, "devp")
    /\ seven_segment_devp' = "freed"
    /\ digit_to_display' = Indeterminate
    /\ pc' = [pc EXCEPT ![t] = "node"]
    /\ UNCHANGED <<state, loads, message, charSigned, filp, msgbuf, overrun,
                   obsVars, targ, tobs>>

\* device_destroy(&seven_segment_class, MKDEV(MAJOR(first), MINOR(first)))
ExitNode(t) ==
    /\ pc[t] = "node"
    /\ held' = Release(held, "node")
    /\ pc' = [pc EXCEPT ![t] = "class"]
    /\ UNCHANGED <<state, loads, seven_segment_devp, message, charSigned, filp,
                   memVars, obsVars, targ, tobs>>

\* class_destroy(&seven_segment_class)
ExitClass(t) ==
    /\ pc[t] = "class"
    /\ \A u \in Setters \cup Getters : ~InFlight(u)
    /\ held' = Release(held, "class")
    /\ state' = "Uninitialized"
    /\ pc' = [pc EXCEPT ![t] = "done"]
    /\ UNCHANGED <<loads, seven_segment_devp, message, charSigned, filp,
                   memVars, obsVars, targ, tobs>>

NextExit ==
    \/ seven_segment_init(1)
    \/ seven_segment_open
    \/ FileRelease
    \/ \E t \in ExitWriters : WriteBegin(t)
    \/ \E t \in ExitWriters : WriteMemset(t)
    \/ \E t \in ExitWriters : WriteCopy(t)
    \/ \E t \in ExitWriters : WriteLoad(t)
    \/ \E t \in ExitWriters : WriteAssign(t)
    \/ \E t \in ExitWriters : WriteDisplay(t)
    \/ \E t \in Setters : StoreBegin(t)
    \/ \E t \in Setters : StoreAssign(t)
    \/ \E t \in Setters : StoreDisplay(t)
    \/ \E t \in Setters : StoreReturn(t)
    \/ \E t \in Getters : ShowBegin(t)
    \/ \E t \in Getters : ShowLoad(t)
    \/ \E t \in Unloaders : ExitBegin(t)
    \/ \E t \in Unloaders : ExitRegion(t)
    \/ \E t \in Unloaders : ExitKfree(t)
    \/ \E t \in Unloaders : ExitNode(t)
    \/ \E t \in Unloaders : ExitClass(t)

SpecExit == Init /\ [][NextExit]_vars

(***************************************************************************)
(* Properties of the register and the two access surfaces (Spec).          *)
(***************************************************************************)
Digits == 0..9

\* the last handler was a stream write that ran to its return statement
\* with the transport delivering every byte
WriteReturned == op = "write" /\ fault = "none" /\ ret # -EFAULT

\* C1: while the module is loaded, after any sequence of stream writes and
\* attribute sets with arbitrary payloads, the digit register holds a value
\* in 0..9.
C1_DigitAlwaysDecimal ==
    state = "Active" => digit_to_display \in Digits

\* C2: a stream write whose first byte is outside '0'..'9', the transport
\* succeeding, leaves the register unchanged, does not call the actuator and
\* returns the caller's count.
C2_WriteRejectsNonDigit ==
    (WriteReturned /\ arg.count >= 1 /\ arg.b \notin DigitChars)
        => (~changed /\ shown = <<>> /\ ret = arg.count)

\* C3: an attribute set whose first byte is outside '0'..'9' leaves the
\* register unchanged and does not call the actuator; every attribute set,
\* valid or not, of any length, returns 1.
C3_StoreRejectsNonDigit ==
    op = "store" =>
        /\ ret = 1
        /\ arg.b \notin DigitChars => (~changed /\ shown = <<>>)

\* C3 witness: a set of ":" with a longer payload returned 1 and left the
\* register at the 7 an earlier call had put there.
C3_Witness ==
    /\ op = "store"
    /\ arg = [b |-> 58, count |-> 2]
    /\ ret = 1
    /\ digit_to_display = 7

\* the last handler stored the digit character arg.b through either surface
\* (a write of more than USE_NUMBER_OF_DIGITS bytes runs past the end of the
\* message buffer and is left out)
StoredDigitChar ==
    /\ arg.b \in DigitChars
    /\ arg.count >= 1
    /\ \/ WriteReturned /\ overrun = 0
       \/ op = "store"

\* C4: after a stream write or an attribute set of the character '0'+d, with
\* no other call in between, a stream read delivers only bytes '0'+d and an
\* attribute get delivers '0'+d followed by a newline.
C4_WriteThenReadBack ==
    [][ StoredDigitChar =>
          /\ op' = "read" => \A i \in 1..Len(out') : out'[i] = arg.b
          /\ op' = "show" => out' = <<arg.b, CharNL>> ]_vars

\* C4 witness: a read of two bytes delivered "99", which only a write or a
\* set of '9' can have put into the register.
C4_Witness ==
    /\ op = "read"
    /\ out = <<57, 57>>
    /\ digit_to_display = 9

(***************************************************************************)
(* Properties of the load and unload sequence (SpecLife).                  *)
(***************************************************************************)
RECURSIVE Reverse(_)
Reverse(q) == IF q = <<>> THEN <<>> ELSE Reverse(Tail(q)) \o <<Head(q)>>

\* the first step of the last init whose kernel call failed
FirstFailed == CHOOSE k \in failed : \A j \in failed : k <= j

\* how often resource r occurs in the sequence q of release calls
Occurrences(q, r) == Cardinality({i \in 1..Len(q) : q[i] = r})

\* C5: if one of the six acquisition steps of init fails, init reports
\* failure and, when it returns, no region, class, endpoint registration,
\* device node or message buffer remains held.
C5_FailedInitHoldsNothing ==
    (op = "init" /\ failed # {}) =>
        /\ ret # 0
        /\ \A r \in {"region", "class", "cdev", "node", "message"} : held[r] = 0

\* C6: on failure at step k of init the release calls are exactly those for
\* the resources acquired at steps 1..k-1, in reverse acquisition order.
C6_UnwindInReverseOrder ==
    (op = "init" /\ failed # {}) =>
        calls = Reverse(SubSeq(Resources, 1, FirstFailed - 1))

\* C7: init returns success only with all six resources held, so that no
\* stream write runs while the message buffer is absent.
C7_ActiveHoldsAllSix ==
    /\ state = "Active" => \A r \in ResourceSet : held[r] >= 1
    /\ op = "write" => message = "valid"

\* C8: exit after a successful init releases message buffer, device node,
\* cdev endpoint, controller memory, class and region, in that order.
C8_ExitReleasesInReverseOrder ==
    op = "exit" => calls = Reverse(Resources)

\* C9: after exit the controller is Uninitialized with no resource held, each
\* of the six having been released exactly once.
C9_ExitReleasesEverythingOnce ==
    op = "exit" =>
        /\ state = "Uninitialized"
        /\ \A r \in ResourceSet : held[r] = 0 /\ Occurrences(calls, r) = 1

(***************************************************************************)
(* Properties of overlapping calls (SpecConc).                             *)
(***************************************************************************)
\* the stream write of "5" by w1 and the attribute set of "7" by s1 have
\* both returned, and no other writer was started
WriteFiveSetSevenReturned ==
    /\ pc["w1"] = "done" /\ targ["w1"] = [b |-> 53, count |-> 1]
    /\ pc["s1"] = "done" /\ targ["s1"] = [b |-> 55, count |-> 1]
    /\ pc["w2"] = "idle"

\* C10: in every interleaving of one stream write of '5' with one attribute
\* set of '7', once both calls have returned the register holds 5 or 7.
C10_WriteSetRace ==
    WriteFiveSetSevenReturned => digit_to_display \in {5, 7}

\* C10 witness: both calls stored their digit and the write's store came
\* last.
C10_Witness ==
    /\ WriteFiveSetSevenReturned
    /\ tobs["w1"].stored = 5
    /\ tobs["s1"].stored = 7
    /\ digit_to_display = 5

(***************************************************************************)
(* Further properties of the access surfaces (Spec).                       *)
(***************************************************************************)
\* C12: an attribute set of exactly the bytes the preceding attribute get
\* returned leaves the register at its prior value, whatever that value is,
\* and any actuator call it makes carries the character of that value; the
\* register being unchanged, this holds for every repetition.
C12_SetOfGetIdempotent ==
    [][ (op = "show" /\ op' = "store"
            /\ arg'.b = out[1] /\ arg'.count = Len(out)) =>
          /\ digit_to_display' = digit_to_display
          /\ shown' \in {<<>>, <<ToChar(Char0 + CharVal(digit_to_display))>>}
          /\ digit_to_display \in Digits => shown' # <<>> ]_vars

\* C12 witness: a set of ":" and one more byte, which is what get returns
\* for a register that a stream write has left at 10, kept the register.
C12_Witness ==
    /\ op = "store"
    /\ arg = [b |-> 58, count |-> 2]
    /\ digit_to_display = 10
    /\ shown = <<>>

\* C13: for every count a stream write stores at most one byte into the
\* one-byte message buffer and never writes past its end.
C13_WriteStoresAtMostOneByte ==
    (op = "write" /\ fault = "none") => overrun = 0

\* C14: the actuator is only ever called with a digit character: no stream
\* write and no attribute set passes display_on_screen a first byte outside
\* '0'..'9'.
C14_ActuatorGetsDigitsOnly ==
    \A i \in 1..Len(shown) : shown[i] \in DigitChars

\* C16: a stream read returns the number of bytes put_user accepted, which
\* is the requested count when none is refused and fewer otherwise, never
\* an error; every byte delivered is '0' plus the register; the read leaves
\* the register alone and does not call the actuator.
C16_ReadDeliversRegister ==
    [][ op' = "read" =>
          /\ ret' = Len(out')
          /\ ret' >= 0 /\ ret' <= arg'.count
          /\ \A i \in 1..Len(out') :
                out'[i] = ToChar(Char0 + CharVal(digit_to_display))
          /\ digit_to_display' = digit_to_display
          /\ shown' = <<>> ]_vars

\* C16 witness: a read of two bytes of a register holding 5 was cut short
\* after the first byte and returned 1 with "5".
C16_Witness ==
    /\ op = "read"
    /\ arg.count = 2
    /\ ret = 1
    /\ out = <<53>>
    /\ digit_to_display = 5

\* C17: a stream write whose transport cannot deliver all requested bytes
\* returns -EFAULT, keeps the register and does not call the actuator; a
\* write whose transport delivers them returns the caller's count, for
\* every payload.
C17_WriteFaultOrCount ==
    [][ (op' = "write" /\ fault' = "none") =>
          IF arg'.copied # arg'.count
          THEN /\ ret' = -EFAULT
               /\ digit_to_display' = digit_to_display
               /\ shown' = <<>>
          ELSE ret' = arg'.count ]_vars

\* C17 witness: of a write of two bytes starting with "9" only the first
\* was delivered; the write returned -EFAULT and the register still holds
\* the 1 that init gave it.
C17_Witness ==
    /\ op = "write"
    /\ arg = [b |-> 57, count |-> 2, copied |-> 1]
    /\ ret = -EFAULT
    /\ msgbuf = 57
    /\ digit_to_display = 1

(***************************************************************************)
(* Further properties of the load and unload sequence (SpecLife).          *)
(***************************************************************************)
\* C15: after every successful init the register holds 1, whatever was
\* written before a preceding exit, and an attribute get that follows
\* directly returns '1' and a newline.
C15_InitResetsToOne ==
    [][ /\ (op' = "init" /\ ret' = 0) => digit_to_display' = 1
        /\ (op = "init" /\ ret = 0 /\ op' = "show") => out' = <<Char1, CharNL>>
      ]_vars

\* C15 witness: get returned "1\n" in the second load of the module, after a
\* first load that succeeded and was unloaded (both loads allocated their
\* message buffer).
C15_Witness ==
    /\ op = "show"
    /\ out = <<Char1, CharNL>>
    /\ loads = 2
    /\ held["message"] = 2

(***************************************************************************)
(* Further properties of overlapping calls (SpecConc).                     *)
(***************************************************************************)
\* the calls that have been entered so far
Entered == {t \in Writers \cup Setters : pc[t] # "idle"}

\* the digits the entered write and set calls supply
SuppliedDigits == {targ[t].b - Char0 : t \in Entered}

\* C11: while every write and set call entered so far supplies a digit
\* character, in any interleaving (two overlapping stream writes included),
\* the register, at every moment and so also after all calls have returned,
\* and every value an overlapping get has read from it, is the value init
\* left or one of the supplied digits.
C11_OnlyOldOrSuppliedDigits ==
    (state = "Active" /\ \A t \in Entered : targ[t].b \in DigitChars) =>
        /\ digit_to_display \in {InitDigit} \cup SuppliedDigits
        /\ \A g \in Getters :
              tobs[g].loaded # None =>
                  tobs[g].loaded \in {InitDigit} \cup SuppliedDigits

\* C18: in every interleaving, two overlapping stream writes included, the
\* byte a write or set call passes to the actuator is the character of the
\* digit that this same call stored in the register.
C18_RenderedIsStored ==
    \A t \in Threads :
        tobs[t].rendered # None =>
            ToChar(CharVal(tobs[t].rendered) - Char0) = tobs[t].stored

(***************************************************************************)
(* Properties of calls that overlap seven_segment_exit (SpecExit).         *)
(***************************************************************************)
\* C19: exit frees the controller's storage only after both access surfaces
\* are withdrawn, so that no read, write, get or set that overlaps exit uses
\* the register after its storage was freed.
C19_NoAccessAfterFree ==
    \A t \in Threads : ~tobs[t].freed

====
